---- MODULE Spec2Model ----
(***************************************************************************)
(* A model of the Mini Virtual Suggestion Box (src/suggestion_box.py, with *)
(* the earlier draft src/suggestion.py where a claim names it).            *)
(*                                                                         *)
(* Strings are sequences of characters; a character is a one-token TLA+    *)
(* string ("a", " ", "\"", ...).  The token "U+00E9" stands for the single *)
(* non-ASCII character e-acute.  A log file is its sequence of lines, each *)
(* without the "\n" its writer ends it with; the reader hands every line   *)
(* back with that "\n", as Python's file iteration does.                   *)
(***************************************************************************)
EXTENDS Integers, Sequences, FiniteSets, TLC

VARIABLES
    pc,          \* where the process is: boot, menu, admin, exited, crashed
    suggestions, \* suggestion_box.py:56   list of parsed entries
    categories,  \* suggestion_box.py:60   bucket name -> list of {'text': ..}
    questions,   \* suggestion_box.py:57   dict in insertion order: <<[q, answers]>>
    sFile,       \* suggestions.txt        [exists, lines]
    qFile,       \* questions.txt          [exists, lines]
    out,         \* what the last handler printed / returned
    probe        \* the input of the pure-function specifications

vars == <<pc, suggestions, categories, questions, sFile, qFile, out, probe>>

----------------------------------------------------------------------------
(* Bounds of the model *)

MaxSuggestions == 2
MaxQuestions == 2
MaxAnswers == 2
MaxExtLines == 2

----------------------------------------------------------------------------
(* Python str operations *)

Whitespace == {" ", "\t", "\n", "\r"}

Upper == <<"A","B","C","D","E","F","G","H","I","J","K","L","M",
           "N","O","P","Q","R","S","T","U","V","W","X","Y","Z">>
LowerOf == <<"a","b","c","d","e","f","g","h","i","j","k","l","m",
             "n","o","p","q","r","s","t","u","v","w","x","y","z">>

\* str.lower() on one character
lower_char(c) ==
    IF \E i \in 1..26 : Upper[i] = c
    THEN LowerOf[CHOOSE i \in 1..26 : Upper[i] = c]
    ELSE c

\* str.lower()
lower(s) == [i \in 1..Len(s) |-> lower_char(s[i])]

\* str.strip(): drops leading and trailing whitespace
RECURSIVE lstrip(_)
lstrip(s) == IF s # <<>> /\ Head(s) \in Whitespace THEN lstrip(Tail(s)) ELSE s

RECURSIVE rstrip(_)
rstrip(s) ==
    IF s # <<>> /\ s[Len(s)] \in Whitespace
    THEN rstrip(SubSeq(s, 1, Len(s) - 1))
    ELSE s

strip(s) == rstrip(lstrip(s))

\* str.startswith(prefix)
startswith(s, prefix) ==
    Len(s) >= Len(prefix) /\ SubSeq(s, 1, Len(prefix)) = prefix

\* the slice s[n:]
slice_from(s, n) == SubSeq(s, n + 1, Len(s))

\* the operator `k in s` on two strings
str_in(k, s) ==
    \E i \in 1..(Len(s) - Len(k) + 1) : SubSeq(s, i, i + Len(k) - 1) = k

----------------------------------------------------------------------------
(* Category classifier *)

\* category_keywords with the Benefits row written first
category_keywords_benefits_first ==
    << [category |-> "Benefits",
        keywords |-> << <<"b","o","n","u","s">>, <<"l","e","a","v","e">>,
                        <<"h","e","a","l","t","h">>,
                        <<"i","n","s","u","r","a","n","c","e">>,
                        <<"r","a","i","s","e">>,
                        <<"s","a","l","a","r","y">> >>],
       [category |-> "Facility",
        keywords |-> << <<"o","f","f","i","c","e">>, <<"r","o","o","m">>,
                        <<"d","e","s","k">>, <<"c","h","a","i","r">>,
                        <<"l","i","g","h","t">>,
                        <<"b","u","i","l","d","i","n","g">> >>],
       [category |-> "Work Process",
        keywords |-> << <<"w","o","r","k","f","l","o","w">>,
                        <<"s","c","h","e","d","u","l","e">>,
                        <<"p","r","o","c","e","s","s">>,
                        <<"m","e","e","t","i","n","g">>,
                        <<"t","a","s","k">>,
                        <<"c","o","m","m","u","n","i","c","a","t","i","o","n">> >>] >>

\* category_keywords, in the dict's insertion order
category_keywords ==
    << [category |-> "Facility",
        keywords |-> << <<"o","f","f","i","c","e">>, <<"r","o","o","m">>,
                        <<"d","e","s","k">>, <<"c","h","a","i","r">>,
                        <<"l","i","g","h","t">>,
                        <<"b","u","i","l","d","i","n","g">> >>],
       [category |-> "Work Process",
        keywords |-> << <<"w","o","r","k","f","l","o","w">>,
                        <<"s","c","h","e","d","u","l","e">>,
                        <<"p","r","o","c","e","s","s">>,
                        <<"m","e","e","t","i","n","g">>,
                        <<"t","a","s","k">>,
                        <<"c","o","m","m","u","n","i","c","a","t","i","o","n">> >>],
       [category |-> "Benefits",
        keywords |-> << <<"b","o","n","u","s">>, <<"l","e","a","v","e">>,
                        <<"h","e","a","l","t","h">>,
                        <<"i","n","s","u","r","a","n","c","e">>,
                        <<"r","a","i","s","e">>,
                        <<"s","a","l","a","r","y">> >>] >>

\* any(k in text_lower for k in keywords)
RECURSIVE any_keyword(_, _)
any_keyword(keywords, text_lower) ==
    IF keywords = <<>> THEN FALSE
    ELSE IF str_in(Head(keywords), text_lower) THEN TRUE
    ELSE any_keyword(Tail(keywords), text_lower)

\* the loop of categorize_suggestion over category_keywords.items(): the
\* category of the first table row with a keyword in text_lower, else "Other"
RECURSIVE first_category(_, _)
first_category(table, text_lower) ==
    IF table = <<>> THEN "Other"
    ELSE IF any_keyword(Head(table).keywords, text_lower)
         THEN Head(table).category
         ELSE first_category(Tail(table), text_lower)

\* categorize_suggestion matching the keywords against the text as typed
category_of_as_typed(text) == first_category(category_keywords, text)

\* the value categorize_suggestion returns
category_of(text) ==
    CHOOSE c \in {first_category(category_keywords, text_lower) :
                    text_lower \in {lower(text)}} : TRUE

\* categorize_suggestion without the return inside the loop: the text falls
\* through to "Other" as well
categorize_suggestion_no_return(cats, text) ==
    CHOOSE res \in
        {[categories |->
              [c \in DOMAIN cats |->
                  IF c = category \/ c = "Other"
                  THEN Append(cats[c], [text |-> text]) ELSE cats[c]],
          category |-> category] : category \in {category_of(text)}} : TRUE

\* categorize_suggestion that tests the keywords against the text as typed
categorize_suggestion_as_typed(cats, text) ==
    CHOOSE res \in
        {[categories |-> [cats EXCEPT ![category] = Append(@, [text |-> text])],
          category |-> category] :
            category \in {first_category(category_keywords, text)}} : TRUE

\* categorize_suggestion: append {'text': text} to the bucket, return its name
categorize_suggestion(cats, text) ==
    CHOOSE res \in
        {[categories |-> [cats EXCEPT ![category] = Append(@, [text |-> text])],
          category |-> category] : category \in {category_of(text)}} : TRUE

\* suggestion.py's categorize_suggestion: the draft appends the bare text
draft_categorize_suggestion(cats, text) ==
    CHOOSE res \in
        {[categories |-> [cats EXCEPT ![category] = Append(@, text)],
          category |-> category] :
            category \in {CHOOSE c \in
                {first_category(category_keywords, text_lower) :
                    text_lower \in {lower(text)}} : TRUE}} : TRUE

----------------------------------------------------------------------------
(* Sentiment classifier; a polarity is an integer number of hundredths *)

PosThreshold == 10
NegThreshold == -10

Positive == <<"P","o","s","i","t","i","v","e">>
Neutral == <<"N","e","u","t","r","a","l">>
Negative == <<"N","e","g","a","t","i","v","e">>
Sentiments == {Positive, Neutral, Negative}

\* analyze_sentiment with the bounds included
analyze_sentiment_inclusive(score) ==
    IF score.failed THEN Neutral
    ELSE IF score.polarity >= PosThreshold THEN Positive
    ELSE IF score.polarity <= NegThreshold THEN Negative
    ELSE Neutral

\* score: [failed |-> TextBlob raised, polarity |-> hundredths]
analyze_sentiment(score) ==
    IF score.failed THEN Neutral
    ELSE IF score.polarity > PosThreshold THEN Positive
    ELSE IF score.polarity < NegThreshold THEN Negative
    ELSE Neutral

----------------------------------------------------------------------------
(* json.dumps / json.loads, on the values the suggestions log can hold:    *)
(* an object whose members are strings, integers or null/true/false, or    *)
(* one such scalar.  (Arrays, nested objects, fractions and \u escapes of  *)
(* other code points are outside the lines considered.)                    *)

KText == <<"t","e","x","t">>
KSentiment == <<"s","e","n","t","i","m","e","n","t">>

JStr(s) == [t |-> "str", s |-> s, n |-> 0]
JNum(n) == [t |-> "num", s |-> <<>>, n |-> n]
JLit(name) == [t |-> name, s |-> <<>>, n |-> 0]

\* a Python dict from key strings to scalars
JDict(d) == [t |-> "dict", s |-> <<>>, n |-> 0, d |-> d]
\* a Python str, int or None/True/False where an entry was expected
JScalar(v) == [t |-> v.t, s |-> v.s, n |-> v.n, d |-> <<>>]

\* key in entry, for a dict
has_key(entry, key) == key \in DOMAIN entry.d

\* the dict literal {"text": text, "sentiment": sentiment}
suggestion_entry(text, sentiment) ==
    JDict((KText :> JStr(text)) @@ (KSentiment :> JStr(sentiment)))

\* json's string escaping with ensure_ascii
escape_char(c) ==
    CASE c = "\"" -> <<"\\", "\"">>
      [] c = "\\" -> <<"\\", "\\">>
      [] c = "\n" -> <<"\\", "n">>
      [] c = "\r" -> <<"\\", "r">>
      [] c = "\t" -> <<"\\", "t">>
      [] c = "U+00E9" -> <<"\\", "u", "0", "0", "e", "9">>
      [] OTHER -> <<c>>

RECURSIVE escape(_)
escape(s) == IF s = <<>> THEN <<>> ELSE escape_char(Head(s)) \o escape(Tail(s))

quoted(s) == <<"\"">> \o escape(s) \o <<"\"">>

\* json.dumps of {"text": .., "sentiment": ..}, keys in insertion order,
\* separators ", " and ": "
json_dumps(entry) ==
    <<"{">> \o quoted(KText) \o <<":", " ">> \o quoted(entry.d[KText].s)
        \o <<",", " ">>
        \o quoted(KSentiment) \o <<":", " ">> \o quoted(entry.d[KSentiment].s)
        \o <<"}">>

JsonWs == {" ", "\t", "\n", "\r"}
Digits == <<"0","1","2","3","4","5","6","7","8","9">>
IsDigit(c) == \E i \in 1..10 : Digits[i] = c
DigitValue(c) == (CHOOSE i \in 1..10 : Digits[i] = c) - 1

ParseFail == [ok |-> FALSE, pos |-> 0, val |-> JLit("null")]
ParseOk(pos, val) == [ok |-> TRUE, pos |-> pos, val |-> val]

RECURSIVE skip_ws(_, _)
skip_ws(s, i) ==
    IF i <= Len(s) /\ s[i] \in JsonWs THEN skip_ws(s, i + 1) ELSE i

\* the body of a JSON string from position i, after its opening quote
RECURSIVE scan_string(_, _, _)
scan_string(s, i, acc) ==
    IF i > Len(s) THEN ParseFail
    ELSE IF s[i] = "\"" THEN ParseOk(i + 1, JStr(acc))
    ELSE IF s[i] = "\\" THEN
        IF i + 1 > Len(s) THEN ParseFail
        ELSE IF s[i + 1] \in {"\"", "\\", "/"}
            THEN scan_string(s, i + 2, Append(acc, s[i + 1]))
        ELSE IF s[i + 1] = "n" THEN scan_string(s, i + 2, Append(acc, "\n"))
        ELSE IF s[i + 1] = "r" THEN scan_string(s, i + 2, Append(acc, "\r"))
        ELSE IF s[i + 1] = "t" THEN scan_string(s, i + 2, Append(acc, "\t"))
        ELSE IF s[i + 1] = "u" /\ i + 5 <= Len(s)
                /\ lower(SubSeq(s, i + 2, i + 5)) = <<"0", "0", "e", "9">>
            THEN scan_string(s, i + 6, Append(acc, "U+00E9"))
        ELSE ParseFail
    ELSE IF s[i] \in {"\n", "\r", "\t"} THEN ParseFail
    ELSE scan_string(s, i + 1, Append(acc, s[i]))

RECURSIVE scan_digits(_, _, _)
scan_digits(s, i, acc) ==
    IF i <= Len(s) /\ IsDigit(s[i])
    THEN scan_digits(s, i + 1, 10 * acc + DigitValue(s[i]))
    ELSE ParseOk(i, JNum(acc))

\* an integer: -? (0 | [1-9][0-9]*)
parse_number(s, i) ==
    LET neg == s[i] = "-"
        j == IF neg THEN i + 1 ELSE i
    IN IF j > Len(s) \/ ~IsDigit(s[j]) THEN ParseFail
       ELSE CHOOSE res \in
                {IF neg THEN ParseOk(r.pos, JNum(0 - r.val.n)) ELSE r :
                    r \in {IF s[j] = "0" THEN ParseOk(j + 1, JNum(0))
                           ELSE scan_digits(s, j, 0)}} : TRUE

parse_literal(s, i) ==
    IF startswith(slice_from(s, i - 1), <<"n","u","l","l">>)
        THEN ParseOk(i + 4, JLit("null"))
    ELSE IF startswith(slice_from(s, i - 1), <<"t","r","u","e">>)
        THEN ParseOk(i + 4, JLit("true"))
    ELSE IF startswith(slice_from(s, i - 1), <<"f","a","l","s","e">>)
        THEN ParseOk(i + 5, JLit("false"))
    ELSE ParseFail

\* a string, an integer or a literal at position i
parse_scalar(s, i) ==
    IF i > Len(s) THEN ParseFail
    ELSE IF s[i] = "\"" THEN scan_string(s, i + 1, <<>>)
    ELSE IF s[i] = "-" \/ IsDigit(s[i]) THEN parse_number(s, i)
    ELSE parse_literal(s, i)

\* the rest of a member, after its key k
member_value(s, k, d) ==
    LET c == skip_ws(s, k.pos)
    IN IF ~k.ok \/ c > Len(s) \/ s[c] # ":" THEN ParseFail
       ELSE CHOOSE res \in
                {LET e == skip_ws(s, v.pos)
                 IN IF ~v.ok \/ e > Len(s) \/ s[e] \notin {"}", ","} THEN ParseFail
                    ELSE [ok |-> TRUE, pos |-> e,
                          val |-> JDict((k.val.s :> v.val) @@ d)] :
                    v \in {parse_scalar(s, skip_ws(s, c + 1))}} : TRUE

\* the members of an object from position i (at a key's opening quote);
\* a repeated key keeps its last value
RECURSIVE parse_members(_, _, _)
parse_members(s, i, d) ==
    IF i > Len(s) \/ s[i] # "\"" THEN ParseFail
    ELSE CHOOSE res \in
            {IF ~m.ok THEN ParseFail
             ELSE IF s[m.pos] = "}" THEN ParseOk(m.pos + 1, m.val)
             ELSE parse_members(s, skip_ws(s, m.pos + 1), m.val.d) :
                m \in {CHOOSE mv \in {member_value(s, k, d) :
                                        k \in {scan_string(s, i + 1, <<>>)}} : TRUE}}
            : TRUE

parse_value(s, i) ==
    IF i > Len(s) THEN ParseFail
    ELSE IF s[i] = "{" THEN
        LET j == skip_ws(s, i + 1)
        IN IF j <= Len(s) /\ s[j] = "}" THEN ParseOk(j + 1, JDict(<<>>))
           ELSE parse_members(s, j, <<>>)
    ELSE CHOOSE res \in
            {IF r.ok THEN ParseOk(r.pos, JScalar(r.val)) ELSE ParseFail :
                r \in {parse_scalar(s, i)}} : TRUE

\* json.loads(line): [ok |-> FALSE] is JSONDecodeError
json_loads(line) ==
    CHOOSE res \in
        {IF r.ok /\ skip_ws(line, r.pos) = Len(line) + 1
         THEN [ok |-> TRUE, val |-> r.val]
         ELSE [ok |-> FALSE, val |-> JScalar(JLit("null"))] :
            r \in {parse_value(line, skip_ws(line, 1))}} : TRUE

----------------------------------------------------------------------------
(* Files *)

NoFile == [exists |-> FALSE, lines |-> <<>>]

\* open(path, "a") and one write of line + "\n": creates the file if absent
append_line(file, line) == [exists |-> TRUE, lines |-> Append(file.lines, line)]

\* what `for line in f` yields for a stored line
read_line(stored) == Append(stored, "\n")

\* save_suggestion as the draft has it: the bare text, not a JSON record
save_suggestion_bare_text(file, suggestion) ==
    append_line(file, suggestion.d[KText].s)

\* save_suggestion that opens the file with mode "w"
save_suggestion_overwrites(file, suggestion) ==
    [exists |-> TRUE, lines |-> <<json_dumps(suggestion)>>]

\* save_suggestion
save_suggestion(file, suggestion) == append_line(file, json_dumps(suggestion))

QPrefix == <<"Q", ":", " ">>
APrefix == <<"A", ":", " ">>
Delimiter == <<"-", "-", "-">>

NoAnswer == [given |-> FALSE, text |-> <<>>]
SomeAnswer(a) == [given |-> TRUE, text |-> a]

\* save_question(question, answer=None)
save_question(file, question, answer) ==
    LET f1 == append_line(file, QPrefix \o question)
        f2 == IF answer.given THEN append_line(f1, APrefix \o answer.text) ELSE f1
    IN append_line(f2, Delimiter)

----------------------------------------------------------------------------
(* The in-memory store *)

BucketNames == {"Facility", "Work Process", "Benefits", "Other"}
EmptyCategories == [c \in BucketNames |-> <<>>]

\* `q in questions`
question_in(qs, q) == \E i \in 1..Len(qs) : qs[i].q = q
question_index(qs, q) == CHOOSE i \in 1..Len(qs) : qs[i].q = q

\* questions[q] = []
question_new(qs, q) ==
    IF question_in(qs, q)
    THEN [qs EXCEPT ![question_index(qs, q)].answers = <<>>]
    ELSE Append(qs, [q |-> q, answers |-> <<>>])

\* questions[q].append(a)
question_append(qs, q, a) ==
    [qs EXCEPT ![question_index(qs, q)].answers = Append(@, a)]

\* load_suggestions that scores the restored text again (here with a scorer
\* that fails, so the label is Neutral)
load_suggestion_entry_rescored(st, parsed) ==
    LET entry == parsed.val
        rescored == IF (entry.t = "dict" /\ has_key(entry, KText)) /\ entry.d[KText].t = "str"
                    THEN suggestion_entry(entry.d[KText].s,
                            analyze_sentiment([failed |-> TRUE, polarity |-> 0]))
                    ELSE entry
        appended == [st EXCEPT !.suggestions = Append(@, rescored)]
    IN IF ~parsed.ok THEN [st EXCEPT !.warnings = @ + 1]
       ELSE IF entry.t # "dict" THEN [appended EXCEPT !.raised = "TypeError"]
       ELSE IF ~has_key(entry, KText) THEN [appended EXCEPT !.raised = "KeyError"]
       ELSE IF entry.d[KText].t # "str"
            THEN [appended EXCEPT !.raised = "AttributeError"]
       ELSE [appended EXCEPT
                !.categories = categorize_suggestion(@, entry.d[KText].s).categories]

\* the loop body of load_suggestions once the line is parsed
load_suggestion_entry(st, parsed) ==
    LET entry == parsed.val
        appended == [st EXCEPT !.suggestions = Append(@, entry)]
    IN IF ~parsed.ok THEN [st EXCEPT !.warnings = @ + 1]
       ELSE IF entry.t # "dict" THEN [appended EXCEPT !.raised = "TypeError"]
       ELSE IF ~has_key(entry, KText) THEN [appended EXCEPT !.raised = "KeyError"]
       ELSE IF entry.d[KText].t # "str"
            THEN [appended EXCEPT !.raised = "AttributeError"]
       ELSE [appended EXCEPT
                !.categories = categorize_suggestion(@, entry.d[KText].s).categories]

\* the loop body of load_suggestions for one line of the file
load_suggestion_line(st, stored) ==
    CHOOSE res \in
        {IF line = <<>> THEN st
         ELSE CHOOSE r \in {load_suggestion_entry(st, parsed) :
                              parsed \in {json_loads(line)}} : TRUE :
            line \in {strip(read_line(stored))}} : TRUE

RECURSIVE load_suggestion_lines(_, _)
load_suggestion_lines(st, lines) ==
    IF lines = <<>> \/ st.raised # "" THEN st
    ELSE CHOOSE res \in
            {load_suggestion_lines(st2, Tail(lines)) :
                st2 \in {load_suggestion_line(st, Head(lines))}} : TRUE

\* load_suggestions, into the given lists and buckets
load_suggestions(sugs, cats, file) ==
    LET st == [suggestions |-> sugs, categories |-> cats, raised |-> "",
               warnings |-> 0]
    IN IF file.exists THEN load_suggestion_lines(st, file.lines) ELSE st

NoCurrent == [set |-> FALSE, q |-> <<>>]

\* the loop body of load_questions once the line is stripped
load_question_stripped(st, line) ==
    IF startswith(line, QPrefix) THEN
        LET current == slice_from(line, 3)
        IN [questions |-> IF question_in(st.questions, current)
                          THEN st.questions
                          ELSE question_new(st.questions, current),
            current |-> [set |-> TRUE, q |-> current]]
    ELSE IF startswith(line, APrefix) /\ st.current.set THEN
        [st EXCEPT !.questions =
             question_append(@, st.current.q, slice_from(line, 3))]
    ELSE IF line = Delimiter THEN [st EXCEPT !.current = NoCurrent]
    ELSE st

\* the loop body of load_questions for one line of the file
load_question_line(st, stored) ==
    CHOOSE res \in {load_question_stripped(st, line) :
                      line \in {strip(read_line(stored))}} : TRUE

RECURSIVE load_question_lines(_, _)
load_question_lines(st, lines) ==
    IF lines = <<>> THEN st
    ELSE CHOOSE res \in
            {load_question_lines(st2, Tail(lines)) :
                st2 \in {load_question_line(st, Head(lines))}} : TRUE

\* load_questions, into the given dict
load_questions(qs, file) ==
    IF file.exists
    THEN load_question_lines([questions |-> qs, current |-> NoCurrent],
                             file.lines).questions
    ELSE qs

----------------------------------------------------------------------------
(* External collaborators *)

\* detect_and_translate whose except branch returns an empty string
detect_and_translate_drops_input(text, env) ==
    IF env.detect = "error" THEN <<>>
    ELSE IF env.detect # "en"
         THEN IF env.translated.failed THEN <<>> ELSE env.translated.text
    ELSE text

\* detect_and_translate without the test of the detected language
detect_and_translate_always_translates(text, env) ==
    IF env.detect = "error" THEN text
    ELSE IF env.translated.failed THEN text ELSE env.translated.text

\* detect_and_translate; env is what langdetect and googletrans do this call:
\* [detect |-> "en" | "other" | "error", translated |-> [failed, text]]
detect_and_translate(text, env) ==
    IF env.detect = "error" THEN text
    ELSE IF env.detect # "en"
         THEN IF env.translated.failed THEN text ELSE env.translated.text
    ELSE text

\* whether the call reached translator.translate
translate_called(env) == env.detect = "other"

\* whether the call printed "[Warning] Language detection/translation failed"
translate_failed(env) ==
    env.detect = "error" \/ (env.detect = "other" /\ env.translated.failed)

\* the warnings one submission prints: that of detect_and_translate and
\* "[Warning] Sentiment analysis failed" of analyze_sentiment
submit_warnings(env, score) ==
    (IF translate_failed(env) THEN 1 ELSE 0) + (IF score.failed THEN 1 ELSE 0)

----------------------------------------------------------------------------
(* Inputs *)

Desk == <<"D","e","s","k">>
TaskRaise == <<" ","t","a","s","k"," ","r","a","i","s","e"," ">>
Quoted == <<"\"","\\","U+00E9">>
RawSuggestions == {Desk, TaskRaise, Quoted}
SuggestionTranslations == {Desk}

Gym == <<"g","y","m">>
GymSpace == <<"g","y","m"," ">>
RawQuestions == {Gym, GymSpace}
QuestionTranslations == {Gym}
AnswerTexts == {<<"n","o">>, <<>>}

NotTranslated == [failed |-> TRUE, text |-> <<>>]

\* what detect and translate may do in one call
Envs(translations) ==
    {[detect |-> d, translated |-> NotTranslated] : d \in {"en", "other", "error"}}
    \cup {[detect |-> "other", translated |-> [failed |-> FALSE, text |-> t]] :
            t \in translations}

\* what TextBlob may do in one call
Scores ==
    {[failed |-> TRUE, polarity |-> 0]}
    \cup {[failed |-> FALSE, polarity |-> p] : p \in {-11, -10, 0, 10, 11}}

ADMIN_PASSWORD == "admin123"
Passwords == {"admin123", "letmein", "Admin123", "admin123 "}

\* what may be typed at "Are you sure? This will delete all data. (yes/no): "
Yes == <<"y","e","s">>
Replies == {Yes, <<" ","Y","E","S"," ">>, <<"n","o">>, <<"y">>, <<>>}

RemoveOutcomes == {"ok", "suggestions_fail", "questions_fail"}

----------------------------------------------------------------------------
(* The program *)

\* what a handler printed last
Out(msg) ==
    [msg |-> msg, text |-> <<>>, sentiment |-> <<>>, category |-> "",
     scored |-> FALSE, translations |-> 0, warnings |-> 0, listing |-> <<>>]

\* the number of stored lines that start with prefix
RECURSIVE count_prefixed(_, _)
count_prefixed(lines, prefix) ==
    IF lines = <<>> THEN 0
    ELSE (IF startswith(Head(lines), prefix) THEN 1 ELSE 0)
         + count_prefixed(Tail(lines), prefix)

Init ==
    /\ pc = "boot"
    /\ suggestions = <<>>
    /\ categories = EmptyCategories
    /\ questions = <<>>
    /\ sFile = NoFile
    /\ qFile = NoFile
    /\ out = Out("")
    /\ probe = <<>>

\* a run of the program up to its first menu: the module-level
\* initialisation, then main's load_suggestions() and load_questions()
main_startup ==
    /\ pc \in {"boot", "exited", "crashed"}
    /\ \E r \in {load_suggestions(<<>>, EmptyCategories, sFile)} :
          /\ suggestions' = r.suggestions
          /\ categories' = r.categories
          /\ IF r.raised # ""
             THEN /\ pc' = "crashed"
                  /\ questions' = <<>>
                  /\ out' = [Out(r.raised) EXCEPT !.warnings = r.warnings]
             ELSE /\ pc' = "menu"
                  /\ questions' = load_questions(<<>>, qFile)
                  /\ out' = [Out("Mini Virtual Suggestion Box Menu")
                                EXCEPT !.warnings = r.warnings]
    /\ UNCHANGED <<sFile, qFile, probe>>

\* menu option 1
add_suggestion(original, env, score) ==
    /\ pc = "menu"
    /\ Len(sFile.lines) < MaxSuggestions
    /\ \E translated \in {detect_and_translate(original, env)},
          sentiment \in {analyze_sentiment(score)} :
          \E suggestion_entry_ \in {suggestion_entry(translated, sentiment)},
             c \in {categorize_suggestion(categories, translated)} :
             /\ suggestions' = Append(suggestions, suggestion_entry_)
             /\ sFile' = save_suggestion(sFile, suggestion_entry_)
             /\ categories' = c.categories
             /\ out' = [Out("Suggestion (translated):") EXCEPT
                           !.text = translated, !.sentiment = sentiment,
                           !.category = c.category, !.scored = TRUE,
                           !.translations =
                               IF translate_called(env) THEN 1 ELSE 0,
                           !.warnings = submit_warnings(env, score)]
    /\ UNCHANGED <<pc, questions, qFile, probe>>

\* add_question that assigns questions[translated_q] = [] before the test
add_question_resets(question, env) ==
    /\ pc = "menu"
    /\ LET translated_q == detect_and_translate(question, env)
           o == [Out("") EXCEPT !.text = translated_q,
                    !.translations = IF translate_called(env) THEN 1 ELSE 0,
                    !.warnings = IF translate_failed(env) THEN 1 ELSE 0]
       IN IF ~question_in(questions, translated_q)
          THEN /\ count_prefixed(qFile.lines, QPrefix)
                    - count_prefixed(qFile.lines, APrefix) < MaxQuestions
               /\ questions' = question_new(questions, translated_q)
               /\ qFile' = save_question(qFile, translated_q, NoAnswer)
               /\ out' = [o EXCEPT !.msg = "Question saved successfully."]
          ELSE /\ out' = [o EXCEPT !.msg = "This question already exists."]
               /\ questions' = question_new(questions, translated_q)
               /\ UNCHANGED qFile
    /\ UNCHANGED <<pc, suggestions, categories, sFile, probe>>

\* menu option 4
add_question(question, env) ==
    /\ pc = "menu"
    /\ LET translated_q == detect_and_translate(question, env)
           o == [Out("") EXCEPT !.text = translated_q,
                    !.translations = IF translate_called(env) THEN 1 ELSE 0,
                    !.warnings = IF translate_failed(env) THEN 1 ELSE 0]
       IN IF ~question_in(questions, translated_q)
          THEN /\ count_prefixed(qFile.lines, QPrefix)
                    - count_prefixed(qFile.lines, APrefix) < MaxQuestions
               /\ questions' = question_new(questions, translated_q)
               /\ qFile' = save_question(qFile, translated_q, NoAnswer)
               /\ out' = [o EXCEPT !.msg = "Question saved successfully."]
          ELSE /\ out' = [o EXCEPT !.msg = "This question already exists."]
               /\ UNCHANGED <<questions, qFile>>
    /\ UNCHANGED <<pc, suggestions, categories, sFile, probe>>

\* list_questions whose save goes to SUGGESTIONS_FILE
list_questions_saves_to_suggestions_file(num, add_ans, new_ans) ==
    /\ pc \in {"menu", "admin"}
    /\ questions # <<>>
    /\ num \in 1..Len(questions)
    /\ IF add_ans = "yes"
       THEN /\ count_prefixed(sFile.lines, APrefix) < MaxAnswers
            /\ questions' = question_append(questions, questions[num].q, new_ans)
            /\ sFile' = save_question(sFile, questions[num].q, SomeAnswer(new_ans))
            /\ out' = [Out("Answer added.") EXCEPT !.text = new_ans]
            /\ UNCHANGED qFile
       ELSE /\ out' = [Out("Answers for:") EXCEPT !.text = questions[num].q]
            /\ UNCHANGED <<questions, qFile, sFile>>
    /\ UNCHANGED <<pc, suggestions, categories, probe>>

\* menu option 5 (admin option 2): pick question num; add_ans is the reply
\* to "Add an answer?"
list_questions(num, add_ans, new_ans) ==
    /\ pc \in {"menu", "admin"}
    /\ questions # <<>>
    /\ num \in 1..Len(questions)
    /\ IF add_ans = "yes"
       THEN /\ count_prefixed(qFile.lines, APrefix) < MaxAnswers
            /\ questions' = question_append(questions, questions[num].q, new_ans)
            /\ qFile' = save_question(qFile, questions[num].q, SomeAnswer(new_ans))
            /\ out' = [Out("Answer added.") EXCEPT !.text = new_ans]
       ELSE /\ out' = [Out("Answers for:") EXCEPT !.text = questions[num].q]
            /\ UNCHANGED <<questions, qFile>>
    /\ UNCHANGED <<pc, suggestions, categories, sFile, probe>>

\* what view_summary prints: the count of every bucket
summary_counts == [c \in BucketNames |-> Len(categories[c])]

\* menu option 2 (admin option 1)
view_summary ==
    /\ pc \in {"menu", "admin"}
    /\ out' = Out("Suggestion Summary:")
    /\ UNCHANGED <<pc, suggestions, categories, questions, sFile, qFile, probe>>

\* list(categories.keys()): the buckets in the order the dict holds them
categories_list == <<"Facility", "Work Process", "Benefits", "Other">>

Unknown == <<"U","n","k","n","o","w","n">>

\* the sentiment view_suggestions_by_category shows for a bucket entry: that
\* of the first suggestion in the list with an equal text
joined_sentiment(sugs, text) ==
    LET matches == {k \in 1..Len(sugs) : sugs[k].d[KText] = JStr(text)}
    IN IF matches = {} THEN JStr(Unknown)
       ELSE LET sug == sugs[CHOOSE k \in matches : \A m \in matches : k <= m]
            IN IF has_key(sug, KSentiment) THEN sug.d[KSentiment]
               ELSE JStr(Unknown)

\* menu option 3; choice_num is the number typed at the prompt
view_suggestions_by_category(choice_num) ==
    /\ pc = "menu"
    /\ IF choice_num = 0
       THEN out' = Out("Categories and suggestion counts:")
       ELSE IF 1 <= choice_num /\ choice_num <= Len(categories_list)
       THEN \E selected_cat \in {categories_list[choice_num]} :
              \E suggestions_in_cat \in {categories[selected_cat]} :
                IF suggestions_in_cat # <<>>
                THEN out' = [Out("Suggestions under") EXCEPT
                        !.category = selected_cat,
                        !.listing =
                            [i \in 1..Len(suggestions_in_cat) |->
                                [text |-> suggestions_in_cat[i].text,
                                 sentiment |->
                                    joined_sentiment(suggestions,
                                        suggestions_in_cat[i].text)]]]
                ELSE out' = [Out("No suggestions yet under") EXCEPT
                                !.category = selected_cat]
       ELSE out' = Out("Invalid choice.")
    /\ UNCHANGED <<pc, suggestions, categories, questions, sFile, qFile, probe>>

\* delete_all_data without the loop that clears the buckets
delete_all_data_keeps_buckets(rm) ==
    LET s_raises == sFile.exists /\ rm = "suggestions_fail"
        q_raises == ~s_raises /\ qFile.exists /\ rm = "questions_fail"
    IN /\ suggestions' = <<>>
       /\ questions' = <<>>
       /\ categories' = categories
       /\ sFile' = IF s_raises THEN sFile ELSE NoFile
       /\ qFile' = IF s_raises \/ q_raises THEN qFile ELSE NoFile
       /\ IF s_raises \/ q_raises
          THEN /\ pc' = "crashed"
               /\ out' = Out("OSError")
          ELSE /\ pc' = pc
               /\ out' = Out("All suggestions and questions deleted.")

\* delete_all_data; rm is what os.remove does
delete_all_data(rm) ==
    LET s_raises == sFile.exists /\ rm = "suggestions_fail"
        q_raises == ~s_raises /\ qFile.exists /\ rm = "questions_fail"
    IN /\ suggestions' = <<>>
       /\ questions' = <<>>
       /\ categories' = EmptyCategories
       /\ sFile' = IF s_raises THEN sFile ELSE NoFile
       /\ qFile' = IF s_raises \/ q_raises THEN qFile ELSE NoFile
       /\ IF s_raises \/ q_raises
          THEN /\ pc' = "crashed"
               /\ out' = Out("OSError")
          ELSE /\ pc' = pc
               /\ out' = Out("All suggestions and questions deleted.")

\* admin_menu without the return after "Access denied."
admin_menu_no_return(pw) ==
    /\ pc = "menu"
    /\ pc' = "admin"
    /\ out' = IF pw # ADMIN_PASSWORD
              THEN Out("Incorrect password. Access denied.")
              ELSE Out("--- Admin Menu ---")
    /\ UNCHANGED <<suggestions, categories, questions, sFile, qFile, probe>>

\* menu option 7: the password prompt of admin_menu
admin_menu(pw) ==
    /\ pc = "menu"
    /\ IF pw # ADMIN_PASSWORD
       THEN /\ pc' = pc
            /\ out' = Out("Incorrect password. Access denied.")
       ELSE /\ pc' = "admin"
            /\ out' = Out("--- Admin Menu ---")
    /\ UNCHANGED <<suggestions, categories, questions, sFile, qFile, probe>>

\* admin option 3; reply is the answer typed, which the code trims and
\* lower-cases into confirm
admin_delete(reply, rm) ==
    /\ pc = "admin"
    /\ IF lower(strip(reply)) = Yes
       THEN delete_all_data(rm)
       ELSE /\ out' = Out("Deletion cancelled.")
            /\ UNCHANGED <<pc, suggestions, categories, questions, sFile, qFile>>
    /\ UNCHANGED probe

\* admin option 4
admin_exit ==
    /\ pc = "admin"
    /\ pc' = "menu"
    /\ out' = Out("Mini Virtual Suggestion Box Menu")
    /\ UNCHANGED <<suggestions, categories, questions, sFile, qFile, probe>>

\* menu option 6, or "no" to the return-to-menu prompt: the process ends and
\* its memory with it
exit_program ==
    /\ pc = "menu"
    /\ pc' = "exited"
    /\ suggestions' = <<>>
    /\ categories' = EmptyCategories
    /\ questions' = <<>>
    /\ out' = Out("Thank you for using the Suggestion Box. Goodbye!")
    /\ UNCHANGED <<sFile, qFile, probe>>

\* the handlers that neither submit nor answer
Lifecycle ==
    \/ main_startup
    \/ view_summary
    \/ \E pw \in Passwords : admin_menu(pw)
    \/ \E reply \in Replies, rm \in RemoveOutcomes : admin_delete(reply, rm)
    \/ admin_exit
    \/ exit_program

\* the numbers typed at the prompt of view_suggestions_by_category
Choices == 0..(Len(categories_list) + 1)

\* the whole program, on few inputs
Next ==
    \/ Lifecycle
    \/ \E choice_num \in Choices : view_suggestions_by_category(choice_num)
    \/ \E original \in {Desk}, env \in Envs({}),
          score \in {sc \in Scores : sc.failed \/ sc.polarity = 11} :
          add_suggestion(original, env, score)
    \/ \E question \in {Gym}, env \in Envs({}) : add_question(question, env)
    \/ \E num \in 1..MaxQuestions, add_ans \in {"yes", "no"},
          new_ans \in {<<"n","o">>} : list_questions(num, add_ans, new_ans)

Spec == Init /\ [][Next]_vars

\* the suggestion half of the program, on all the suggestion inputs
NextSuggestions ==
    \/ Lifecycle
    \/ \E choice_num \in Choices : view_suggestions_by_category(choice_num)
    \/ \E original \in RawSuggestions, env \in Envs(SuggestionTranslations),
          score \in Scores : add_suggestion(original, env, score)

SpecSuggestions == Init /\ [][NextSuggestions]_vars

\* the question half of the program, on all the question inputs
NextQuestions ==
    \/ Lifecycle
    \/ \E question \in RawQuestions, env \in Envs(QuestionTranslations) :
          add_question(question, env)
    \/ \E num \in 1..MaxQuestions, add_ans \in {"yes", "no"},
          new_ans \in AnswerTexts : list_questions(num, add_ans, new_ans)

SpecQuestions == Init /\ [][NextQuestions]_vars

----------------------------------------------------------------------------
(* A start from a suggestions log the program did not write *)

\* {"text": "Desk", "sentiment": "Positive"}, as save_suggestion writes it
LineGood == json_dumps(suggestion_entry(Desk, Positive))
\* oops
LineNotJson == <<"o","o","p","s">>
\* {"sentiment": "Positive"}
LineNoText ==
    <<"{">> \o quoted(KSentiment) \o <<":", " ">> \o quoted(Positive) \o <<"}">>
\* {"text": "Desk"}
LineNoSentiment ==
    <<"{">> \o quoted(KText) \o <<":", " ">> \o quoted(Desk) \o <<"}">>
\* 42
LineNumber == <<"4","2">>
\* {"text": "Desk", "sentiment": "Angry"}
LineOtherSentiment == json_dumps(suggestion_entry(Desk, <<"A","n","g","r","y">>))
\* a line of two spaces
LineBlank == <<" ", " ">>
\* {"text": 5, "sentiment": "Neutral"}
LineTextNumber ==
    <<"{">> \o quoted(KText) \o <<":", " ", "5", ",", " ">>
        \o quoted(KSentiment) \o <<":", " ">> \o quoted(Neutral) \o <<"}">>

ExtLines ==
    {LineGood, LineNotJson, LineNoText, LineNoSentiment, LineNumber,
     LineOtherSentiment, LineBlank, LineTextNumber}

RECURSIVE SeqsUpTo(_, _)
SeqsUpTo(S, n) ==
    IF n = 0 THEN {<<>>}
    ELSE LET shorter == SeqsUpTo(S, n - 1)
         IN shorter \cup {Append(q, x) : q \in shorter, x \in S}

InitAnyLog ==
    /\ pc = "boot"
    /\ suggestions = <<>>
    /\ categories = EmptyCategories
    /\ questions = <<>>
    /\ sFile \in {NoFile} \cup
            {[exists |-> TRUE, lines |-> ls] : ls \in SeqsUpTo(ExtLines, MaxExtLines)}
    /\ qFile = NoFile
    /\ out = Out("")
    /\ probe = <<>>

SpecAnyLog == InitAnyLog /\ [][NextSuggestions]_vars

----------------------------------------------------------------------------
(* The classifiers alone: probe is the input, one step applies the function *)

\* the keyword table's words and words the keywords arise from when joined
ClassifyPieces ==
    UNION {{row.keywords[i] : i \in 1..Len(row.keywords)} :
              row \in {category_keywords[r] : r \in 1..Len(category_keywords)}}
    \cup {<<>>, <<" ">>, <<"x">>, <<"D","E","S","K">>, <<"M","e","e","T","i","n","g">>,
          <<"s","a","l">>, <<"a","r","y">>, <<"o","f","f">>, <<"i","c","e">>,
          <<"B","O","N">>, <<"u","s">>}

ClassifyTexts == {a \o b : a \in ClassifyPieces, b \in ClassifyPieces}

InitClassify ==
    /\ pc = "classify"
    /\ suggestions = <<>>
    /\ categories = EmptyCategories
    /\ questions = <<>>
    /\ sFile = NoFile
    /\ qFile = NoFile
    /\ out = Out("")
    /\ probe \in ClassifyTexts

\* one call of suggestion_box.py's categorize_suggestion
classify_step ==
    /\ pc = "classify"
    /\ \E c \in {categorize_suggestion(categories, probe)} :
          /\ categories' = c.categories
          /\ out' = [Out("classified") EXCEPT !.text = probe,
                                               !.category = c.category]
    /\ pc' = "classified"
    /\ UNCHANGED <<suggestions, questions, sFile, qFile, probe>>

\* one call of suggestion.py's categorize_suggestion
draft_classify_step ==
    /\ pc = "classify"
    /\ \E c \in {draft_categorize_suggestion(categories, probe)} :
          /\ categories' = c.categories
          /\ out' = [Out("draft classified") EXCEPT !.text = probe,
                                                     !.category = c.category]
    /\ pc' = "classified"
    /\ UNCHANGED <<suggestions, questions, sFile, qFile, probe>>

NextClassify == classify_step \/ draft_classify_step

SpecClassify == InitClassify /\ [][NextClassify]_vars

----------------------------------------------------------------------------
(* detect_and_translate alone: probe is the text and what the two libraries
   do with it, one step applies the function *)

Bonjour == <<"B","o","n","j","o","u","r">>
Hello == <<"H","e","l","l","o">>

NormalizeTexts ==
    {<<>>, <<" ">>, <<" ", "\t", " ">>, Desk, TaskRaise, Quoted, Gym, GymSpace,
     Bonjour}

\* what detect(text) may do: langdetect finds no features in a text
\* without letters and raises LangDetectException
detect_outcomes(text) ==
    IF strip(text) = <<>> THEN {"error"} ELSE {"en", "other", "error"}

\* what translator.translate would do if the call reached it
translate_outcomes ==
    {NotTranslated} \cup {[failed |-> FALSE, text |-> t] : t \in {Desk, Hello, <<>>}}

InitNormalize ==
    /\ pc = "normalize"
    /\ suggestions = <<>>
    /\ categories = EmptyCategories
    /\ questions = <<>>
    /\ sFile = NoFile
    /\ qFile = NoFile
    /\ out = Out("")
    /\ probe \in {[text |-> t, env |-> [detect |-> d, translated |-> tr]] :
                    t \in NormalizeTexts, d \in {"en", "other", "error"},
                    tr \in translate_outcomes}
    /\ probe.env.detect \in detect_outcomes(probe.text)

\* one call of detect_and_translate
normalize_step ==
    /\ pc = "normalize"
    /\ out' = [Out("normalized") EXCEPT
                  !.text = detect_and_translate(probe.text, probe.env),
                  !.translations = IF translate_called(probe.env) THEN 1 ELSE 0,
                  !.warnings = IF translate_failed(probe.env) THEN 1 ELSE 0]
    /\ pc' = "normalized"
    /\ UNCHANGED <<suggestions, categories, questions, sFile, qFile, probe>>

NextNormalize == normalize_step

SpecNormalize == InitNormalize /\ [][NextNormalize]_vars

PolarityScale == 100

InitSentiment ==
    /\ pc = "score"
    /\ suggestions = <<>>
    /\ categories = EmptyCategories
    /\ questions = <<>>
    /\ sFile = NoFile
    /\ qFile = NoFile
    /\ out = Out("")
    /\ probe \in [failed : BOOLEAN, polarity : (0 - PolarityScale)..PolarityScale]

\* one call of analyze_sentiment
sentiment_step ==
    /\ pc = "score"
    /\ out' = [Out("scored") EXCEPT !.sentiment = analyze_sentiment(probe),
                                     !.scored = TRUE]
    /\ pc' = "scored"
    /\ UNCHANGED <<suggestions, categories, questions, sFile, qFile, probe>>

NextSentiment == sentiment_step

SpecSentiment == InitSentiment /\ [][NextSentiment]_vars

----------------------------------------------------------------------------
(* Properties *)

StartupMsg == "Mini Virtual Suggestion Box Menu"
SubmittedMsg == "Suggestion (translated):"
SavedMsg == "Question saved successfully."
ExistsMsg == "This question already exists."
DeletedMsg == "All suggestions and questions deleted."

\* how often text t is held by a list of suggestion entries, by a bucket
InList(sugs, t) == Cardinality({i \in 1..Len(sugs) : sugs[i].d[KText].s = t})
InBucket(bucket, t) == Cardinality({i \in 1..Len(bucket) : bucket[i].text = t})

RECURSIVE SumLen(_, _)
SumLen(cats, names) ==
    IF names = {} THEN 0
    ELSE LET c == CHOOSE x \in names : TRUE
         IN Len(cats[c]) + SumLen(cats, names \ {c})

\* an in-memory suggestion that is a dict with a str under 'text'
HasText(e) == e.t = "dict" /\ KText \in DOMAIN e.d /\ e.d[KText].t = "str"
HasSentiment(e) ==
    e.t = "dict" /\ KSentiment \in DOMAIN e.d /\ e.d[KSentiment].t = "str"

TextsHeld ==
    {suggestions[i].d[KText].s : i \in {j \in 1..Len(suggestions) : HasText(suggestions[j])}}
    \cup UNION {{categories[c][i].text : i \in 1..Len(categories[c])} : c \in BucketNames}

\* C1: the buckets partition the suggestions: every suggestion has a text,
\* each text is held by the buckets together exactly as often as by the
\* suggestions list, and so the bucket lengths sum to the list's length.
C1_BucketsPartitionSuggestions ==
    /\ \A i \in 1..Len(suggestions) : HasText(suggestions[i])
    /\ \A t \in TextsHeld :
          LET held == {c \in BucketNames : InBucket(categories[c], t) > 0}
          IN /\ Cardinality(held) = 1
             /\ \A c \in held :
                   InBucket(categories[c], t) = InList(suggestions, t)
    /\ SumLen(categories, BucketNames) = Len(suggestions)

\* two suggestions in two different buckets, after a restore from the log
C1_Witness ==
    /\ pc = "menu"
    /\ out.msg = StartupMsg
    /\ Len(suggestions) = 2
    /\ Cardinality({c \in BucketNames : categories[c] # <<>>}) = 2

\* C2: while the program runs, restoring the suggestions log into a fresh
\* memory gives the suggestions list and the buckets the memory holds:
\* the same texts and sentiments, the same bucket members, in the same order.
C2_RestoreGivesMemory ==
    pc \in {"menu", "admin"} =>
        \E r \in {load_suggestions(<<>>, EmptyCategories, sFile)} :
            /\ r.raised = ""
            /\ r.warnings = 0
            /\ r.suggestions = suggestions
            /\ r.categories = categories

\* just after the second submission, with texts that hold quotes, a
\* backslash, a non-ASCII character, and leading and trailing blanks
C2_Witness ==
    /\ pc = "menu"
    /\ out.msg = SubmittedMsg
    /\ Len(suggestions) = 2
    /\ {suggestions[1].d[KText].s, suggestions[2].d[KText].s} = {Quoted, TaskRaise}
    /\ suggestions[1].d[KSentiment].s # suggestions[2].d[KSentiment].s

UniqueKeys(qs) == \A i, j \in 1..Len(qs) : qs[i].q = qs[j].q => i = j

\* C3: a step of add_question (one that prints either of its two messages for
\* text out'.text) on a text that is already a key prints "already exists"
\* and leaves the question map and the questions log as they were; on a new
\* text it prints "saved" and adds that one key with no answers.  Keys stay
\* unique.
C3_DuplicateQuestionRejected ==
    [][out'.msg \in {SavedMsg, ExistsMsg} =>
          /\ IF question_in(questions, out'.text)
             THEN /\ out'.msg = ExistsMsg
                  /\ questions' = questions
                  /\ qFile' = qFile
             ELSE /\ out'.msg = SavedMsg
                  /\ questions' = Append(questions, [q |-> out'.text, answers |-> <<>>])
          /\ UniqueKeys(questions')
          /\ Cardinality({i \in 1..Len(questions') :
                            questions'[i].q = out'.text}) = 1]_vars

\* a rejected resubmission of a question that already has an answer
C3_Witness ==
    /\ out.msg = ExistsMsg
    /\ \E i \in 1..Len(questions) :
          questions[i].q = out.text /\ questions[i].answers # <<>>

\* C4: right after delete_all_data returns, the store is the fresh store:
\* no suggestions, every bucket empty and every summary count zero, no
\* questions, neither log file; and a restore from there leaves it empty.
C4_WipeLeavesFreshStore ==
    out.msg = DeletedMsg =>
        /\ suggestions = <<>>
        /\ categories = EmptyCategories
        /\ \A c \in BucketNames : summary_counts[c] = 0
        /\ questions = <<>>
        /\ ~sFile.exists /\ ~qFile.exists
        /\ sFile = NoFile /\ qFile = NoFile
        /\ \E r \in {load_suggestions(suggestions, categories, sFile)} :
              r.suggestions = <<>> /\ r.categories = EmptyCategories
        /\ load_questions(questions, qFile) = <<>>

C4_Witness == pc = "admin" /\ out.msg = DeletedMsg

\* the lines of a log that load_suggestions does not skip as blank
RECURSIVE Records(_)
Records(lines) ==
    IF lines = <<>> THEN <<>>
    ELSE LET line == strip(read_line(Head(lines)))
         IN (IF line = <<>> THEN <<>> ELSE <<json_loads(line)>>) \o Records(Tail(lines))

WellFormed(rec) == rec.ok /\ HasText(rec.val) /\ HasSentiment(rec.val)

RECURSIVE WellFormedEntries(_)
WellFormedEntries(recs) ==
    IF recs = <<>> THEN <<>>
    ELSE (IF WellFormed(Head(recs)) THEN <<Head(recs).val>> ELSE <<>>)
         \o WellFormedEntries(Tail(recs))

\* C5: a run's restore ends at the menu whatever the suggestions log holds,
\* with exactly the log's well-formed records in the suggestions list, in
\* order, and one bucket entry for each.
C5_RestoreSkipsMalformed ==
    out.msg \in {StartupMsg, "KeyError", "TypeError", "AttributeError"} =>
        /\ pc = "menu"
        /\ suggestions = WellFormedEntries(Records(sFile.lines))
        /\ SumLen(categories, BucketNames) = Len(suggestions)

\* C6: while the program runs, a restore of the questions log into a fresh
\* memory has, for every question in memory, exactly one entry, and that
\* entry's answers are the question's answers in the same order.
C6_RestoreMergesBlocks ==
    pc \in {"menu", "admin"} =>
        \E r \in {load_questions(<<>>, qFile)} :
            /\ UniqueKeys(r)
            /\ \A i \in 1..Len(questions) :
                  \E j \in 1..Len(r) :
                      r[j].q = questions[i].q /\ r[j].answers = questions[i].answers

\* keyword k occurs in s when case is ignored (the keywords are lower-case)
CaseBlind(a, b) == a = b \/ \E i \in 1..26 : a = Upper[i] /\ b = LowerOf[i]
Occurs(k, s) ==
    \E i \in 1..Len(s) :
        \A j \in 1..Len(k) : i + j - 1 <= Len(s) /\ CaseBlind(s[i + j - 1], k[j])

FacilityWords ==
    {<<"o","f","f","i","c","e">>, <<"r","o","o","m">>, <<"d","e","s","k">>,
     <<"c","h","a","i","r">>, <<"l","i","g","h","t">>,
     <<"b","u","i","l","d","i","n","g">>}
WorkProcessWords ==
    {<<"w","o","r","k","f","l","o","w">>, <<"s","c","h","e","d","u","l","e">>,
     <<"p","r","o","c","e","s","s">>, <<"m","e","e","t","i","n","g">>,
     <<"t","a","s","k">>, <<"c","o","m","m","u","n","i","c","a","t","i","o","n">>}
BenefitsWords ==
    {<<"b","o","n","u","s">>, <<"l","e","a","v","e">>, <<"h","e","a","l","t","h">>,
     <<"i","n","s","u","r","a","n","c","e">>, <<"r","a","i","s","e">>,
     <<"s","a","l","a","r","y">>}

Hit(words, text) == \E k \in words : Occurs(k, text)
HitCategories(text) ==
    {c \in {"Facility", "Work Process", "Benefits"} :
        Hit(CASE c = "Facility" -> FacilityWords
              [] c = "Work Process" -> WorkProcessWords
              [] OTHER -> BenefitsWords, text)}

\* C7: categorize_suggestion returns Facility if a Facility keyword occurs in
\* the lower-cased text, else Work Process if one of its keywords occurs,
\* else Benefits if one of its keywords occurs; a text with keywords of one
\* category only gets that category, and the entry goes to that bucket.
C7_EarliestCategoryWins ==
    out.msg = "classified" =>
        LET hits == HitCategories(probe)
        IN /\ "Facility" \in hits => out.category = "Facility"
           /\ "Facility" \notin hits /\ "Work Process" \in hits
                 => out.category = "Work Process"
           /\ hits = {"Benefits"} => out.category = "Benefits"
           /\ \A c \in hits : hits = {c} => out.category = c
           /\ categories[out.category] = <<[text |-> probe]>>

\* "meeting" and "salary" in one text: Work Process
C7_Witness ==
    /\ out.msg = "classified"
    /\ probe = <<"m","e","e","t","i","n","g">> \o <<"s","a","l","a","r","y">>
    /\ out.category = "Work Process"

\* C8: both versions of categorize_suggestion return one of the four
\* categories for every text, and "Other" exactly when no keyword of any
\* category occurs in the lower-cased text.
C8_OtherIffNoKeyword ==
    out.msg \in {"classified", "draft classified"} =>
        /\ out.category \in BucketNames
        /\ out.category = "Other" <=> HitCategories(probe) = {}
        /\ SumLen(categories, BucketNames) = 1
        /\ categories[out.category] # <<>>

\* the empty text, classified by either version
C8_Witness ==
    /\ out.msg = "draft classified"
    /\ probe = <<>>
    /\ out.category = "Other"

\* C9: a polarity of p hundredths gives Positive iff p > 10, Negative iff
\* p < -10 and Neutral otherwise; 11 is Positive, -11 Negative, and 5, 10
\* and -10 are Neutral.
C9_SentimentThresholds ==
    (out.msg = "scored" /\ ~probe.failed) =>
        /\ out.sentiment = Positive <=> probe.polarity > 10
        /\ out.sentiment = Negative <=> probe.polarity < -10
        /\ out.sentiment = Neutral <=> (-10 <= probe.polarity /\ probe.polarity <= 10)
        /\ probe.polarity = 11 => out.sentiment = Positive
        /\ probe.polarity = -11 => out.sentiment = Negative
        /\ probe.polarity \in {5, 10, -10} => out.sentiment = Neutral

\* exactly 0.1, scored Neutral
C9_Witness ==
    /\ out.msg = "scored"
    /\ ~probe.failed
    /\ probe.polarity = 10
    /\ out.sentiment = Neutral

\* the records of a log that parse
RECURSIVE ParsedEntries(_)
ParsedEntries(recs) ==
    IF recs = <<>> THEN <<>>
    ELSE (IF Head(recs).ok THEN <<Head(recs).val>> ELSE <<>>)
         \o ParsedEntries(Tail(recs))

\* C10: a restore that reaches the menu has not called the scorer, and every
\* restored suggestion is its persisted record as parsed, so its sentiment is
\* the record's sentiment, whatever label that is; only add_suggestion scores.
C10_SentimentRestoredVerbatim ==
    /\ (pc = "menu" /\ out.msg = StartupMsg) =>
          /\ ~out.scored
          /\ suggestions = ParsedEntries(Records(sFile.lines))
    /\ out.scored => out.msg = SubmittedMsg

\* a restored suggestion whose sentiment is none of the scorer's labels,
\* next to one with a scorer's label
C10_Witness ==
    /\ pc = "menu"
    /\ out.msg = StartupMsg
    /\ \E i, j \in 1..Len(suggestions) :
          /\ HasSentiment(suggestions[i])
          /\ suggestions[i].d[KSentiment].s \notin Sentiments
          /\ HasSentiment(suggestions[j])
          /\ suggestions[j].d[KSentiment].s = Positive

\* the step appends one entry holding text to exactly one bucket
OneBucketGrew(text) ==
    \E c \in BucketNames :
        /\ categories'[c] = Append(categories[c], [text |-> text])
        /\ \A d \in BucketNames \ {c} : categories'[d] = categories[d]

\* the last element of a non-empty sequence
Last(q) == q[Len(q)]

\* C11: a submission returns to the menu whatever the collaborators do: when
\* detect or translate raises, the text printed, stored and logged is the raw
\* input; when the scorer raises, the sentiment is Neutral; and in every
\* combination the list, the log and exactly one bucket grow by one entry.
C11_SubmitSurvivesCollaborators ==
    [][(pc = "menu" /\ out'.msg = SubmittedMsg) =>
        \A score \in {sc \in Scores : out'.sentiment = analyze_sentiment(sc)} :
        \A env \in {e \in Envs(SuggestionTranslations) :
                        out'.warnings = submit_warnings(e, score)} :
        \A original \in {o \in RawSuggestions :
                            out'.text = detect_and_translate(o, env)} :
          add_suggestion(original, env, score) =>
            /\ pc' = "menu"
            /\ Len(suggestions') = Len(suggestions) + 1
            /\ Len(sFile'.lines) = Len(sFile.lines) + 1
            /\ OneBucketGrew(out'.text)
            /\ (env.detect = "error"
                    \/ (env.detect = "other" /\ env.translated.failed)) =>
                  /\ out'.text = original
                  /\ Last(suggestions').d[KText].s = original
                  /\ json_loads(Last(sFile'.lines)).val.d[KText].s = original
            /\ score.failed =>
                  /\ out'.sentiment = Neutral
                  /\ Last(suggestions').d[KSentiment].s = Neutral]_vars

\* a submission during which both the translator and the scorer failed
C11_Witness ==
    /\ pc = "menu"
    /\ out.msg = SubmittedMsg
    /\ out.warnings = 2
    /\ out.text = TaskRaise
    /\ out.sentiment = Neutral
    /\ Last(suggestions).d[KText].s = TaskRaise
    /\ Len(sFile.lines) = Len(suggestions)

\* how many lines of a log restore to a record with text t
InLog(lines, t) ==
    Cardinality({i \in 1..Len(lines) :
        \E parsed \in {json_loads(lines[i])} :
            parsed.ok /\ HasText(parsed.val) /\ parsed.val.d[KText].s = t})

\* q is p with exactly one element appended
GrewByOne(p, q) == Len(q) = Len(p) + 1 /\ SubSeq(q, 1, Len(p)) = p

\* C12: every submission, of a text already held or not, leaves the earlier
\* entries and lines as they are and appends one entry to the suggestions
\* list, one line to the log and one entry to the text's bucket, so that a
\* text submitted n times is held n times in each; and whatever the step, the
\* log keeps its lines and only grows at its end unless the step is a wipe.
C12_NoDedupOneRecordEach ==
    [][/\ (pc = "menu" /\ out'.msg = SubmittedMsg) =>
            \E t \in {out'.text}, c \in {out'.category} :
              /\ GrewByOne(suggestions, suggestions')
              /\ GrewByOne(sFile.lines, sFile'.lines)
              /\ GrewByOne(categories[c], categories'[c])
              /\ \A d \in BucketNames \ {c} : categories'[d] = categories[d]
              /\ InList(suggestions', t) = InList(suggestions, t) + 1
              /\ InLog(sFile'.lines, t) = InLog(sFile.lines, t) + 1
              /\ InBucket(categories'[c], t) = InList(suggestions', t)
       /\ (sFile'.exists \/ out'.msg \notin {DeletedMsg, "OSError"}) =>
              SubSeq(sFile'.lines, 1, Len(sFile.lines)) = sFile.lines]_vars

\* the same text submitted twice: two entries, two lines, two bucket members
C12_Witness ==
    /\ pc = "menu"
    /\ out.msg = SubmittedMsg
    /\ Len(suggestions) = 2
    /\ suggestions[1].d[KText].s = suggestions[2].d[KText].s
    /\ InLog(sFile.lines, out.text) = 2
    /\ InBucket(categories[out.category], out.text) = 2

\* the five parts of the store hold nothing
AllCleared ==
    /\ suggestions = <<>>
    /\ \A c \in BucketNames : categories[c] = <<>>
    /\ questions = <<>>
    /\ ~sFile.exists /\ sFile.lines = <<>>
    /\ ~qFile.exists /\ qFile.lines = <<>>

\* C13: a step of delete_all_data, one on which os.remove raises included,
\* either clears the suggestions list, the buckets, the question map and
\* both logs, or leaves all five as they were.
C13_WipeAllOrNothing ==
    [][(pc = "admin" /\ out'.msg \in {DeletedMsg, "OSError"}) =>
          \/ AllCleared'
          \/ UNCHANGED <<suggestions, categories, questions, sFile, qFile>>]_vars

\* C14: every entry of every bucket has a text that the classifier, applied
\* to it again, puts into that bucket.
C14_BucketsRecomputable ==
    \A c \in BucketNames :
        \A i \in 1..Len(categories[c]) : category_of(categories[c][i].text) = c

\* a restored entry and a submitted one, held in two different keyword buckets
C14_Witness ==
    /\ pc = "menu"
    /\ sFile.exists
    /\ categories["Facility"] # <<>>
    /\ \E i \in 1..Len(categories["Work Process"]) :
          categories["Work Process"][i].text = TaskRaise

BrowseMsg == "Suggestions under"

\* the place in the suggestions list of the submission that the i-th entry
\* of bucket c came from: the i-th suggestion that the classifier puts in c
Origin(c, i) ==
    CHOOSE k \in 1..Len(suggestions) :
        /\ category_of(suggestions[k].d[KText].s) = c
        /\ Cardinality({j \in 1..k :
                category_of(suggestions[j].d[KText].s) = c}) = i

\* C15: every line that category browsing shows carries the sentiment recorded
\* for the submission the bucket entry came from, also when another
\* suggestion has the same text.
C15_JoinEqualsStored ==
    out.msg = BrowseMsg =>
        \A i \in 1..Len(out.listing) :
            out.listing[i].sentiment
                = suggestions[Origin(out.category, i)].d[KSentiment]

DeniedMsg == "Incorrect password. Access denied."

\* a step that removes a log file, or empties part of the memory of a process
\* that keeps running or dies of the removal
WipeStep ==
    \/ sFile.exists /\ ~sFile'.exists
    \/ qFile.exists /\ ~qFile'.exists
    \/ /\ pc \in {"menu", "admin"} /\ pc' # "exited"
       /\ \/ Len(suggestions') < Len(suggestions)
          \/ Len(questions') < Len(questions)
          \/ SumLen(categories', BucketNames) < SumLen(categories, BucketNames)

\* the reply that admin_menu takes for the confirmation: trimmed, lower-cased
Confirms(reply) == lower(strip(reply)) = Yes

\* C16: the admin menu is entered only by a step of admin_menu with the fixed
\* password; a wiping step is taken only inside the admin menu, by option 3
\* with the confirmation yes; a wrong password leaves the program at the main
\* menu and the store as it was; and any other confirmation leaves the store
\* as it was.
C16_WipeOnlyThroughAdminGate ==
    [][/\ (pc # "admin" /\ pc' = "admin") => admin_menu(ADMIN_PASSWORD)
       /\ WipeStep =>
            /\ pc = "admin"
            /\ \E reply \in Replies, rm \in RemoveOutcomes :
                  Confirms(reply) /\ admin_delete(reply, rm)
       /\ \A pw \in Passwords \ {ADMIN_PASSWORD} :
            admin_menu(pw) =>
                /\ pc' = "menu"
                /\ out'.msg = DeniedMsg
                /\ UNCHANGED <<suggestions, categories, questions, sFile, qFile>>
       /\ \A reply \in Replies, rm \in RemoveOutcomes :
            (~Confirms(reply) /\ admin_delete(reply, rm)) =>
                /\ pc' = "admin"
                /\ UNCHANGED <<suggestions, categories, questions, sFile, qFile>>
      ]_vars

\* a wrong password was refused while both halves of the store hold data
C16_Witness ==
    /\ pc = "menu"
    /\ out.msg = DeniedMsg
    /\ suggestions # <<>> /\ sFile.exists
    /\ questions # <<>> /\ qFile.exists

\* C17: a call of detect_and_translate reaches the translator at most once;
\* when the text is detected as English it does not reach it and returns the
\* text as given; and a text that is empty or all whitespace comes back as
\* given.
C17_NormalizeTranslatesAtMostOnce ==
    pc = "normalized" =>
        /\ out.translations <= 1
        /\ probe.env.detect = "en" =>
              out.translations = 0 /\ out.text = probe.text
        /\ (\A i \in 1..Len(probe.text) : probe.text[i] \in Whitespace) =>
              out.text = probe.text

\* a call on a whitespace-only text, for which the translator had a text ready
C17_Witness ==
    /\ pc = "normalized"
    /\ probe.text = <<" ", "\t", " ">>
    /\ probe.env.translated = [failed |-> FALSE, text |-> Desk]
    /\ out.text = probe.text
    /\ out.warnings = 1

\* a question dict as the set of its (question, answers) pairs
AsMapping(qs) == {<<qs[i].q, qs[i].answers>> : i \in 1..Len(qs)}

\* C18: while the program runs, whatever questions and answers were typed,
\* replaying the questions log into an empty dict gives exactly the mapping
\* from questions to answers that the memory holds.
C18_QuestionsLogReplaysToMemory ==
    pc \in {"menu", "admin"} =>
        AsMapping(load_questions(<<>>, qFile)) = AsMapping(questions)

\* C19: while the program runs, every suggestion held in memory has a text
\* and a sentiment that is Positive, Neutral or Negative, whatever log the
\* memory was restored from.
C19_SuggestionsTyped ==
    pc \in {"menu", "admin"} =>
        \A i \in 1..Len(suggestions) :
            /\ HasText(suggestions[i])
            /\ HasSentiment(suggestions[i])
            /\ suggestions[i].d[KSentiment].s \in Sentiments

AnswerAddedMsg == "Answer added."

\* C20: a step that submits a question or lists questions and adds an answer
\* leaves the suggestions list, every bucket and the suggestions log as they
\* were; a step that submits a suggestion leaves the question dict and the
\* questions log as they were; the summary and the category browsing leave
\* all five as they were.
C20_HalvesIndependent ==
    [][/\ out'.msg \in {SavedMsg, ExistsMsg, AnswerAddedMsg, "Answers for:"} =>
            UNCHANGED <<suggestions, categories, sFile>>
       /\ out'.msg = SubmittedMsg => UNCHANGED <<questions, qFile>>
       /\ out'.msg \in {"Suggestion Summary:", BrowseMsg,
                         "No suggestions yet under",
                         "Categories and suggestion counts:",
                         "Invalid choice."} =>
            UNCHANGED <<suggestions, categories, questions, sFile, qFile>>
      ]_vars

\* an answer was just added while the suggestion half holds data
C20_Witness ==
    /\ out.msg = AnswerAddedMsg
    /\ suggestions # <<>>
    /\ SumLen(categories, BucketNames) = Len(suggestions)
    /\ sFile.exists /\ Len(sFile.lines) = Len(suggestions)
    /\ Len(qFile.lines) > 2

====
